---------------------------- MODULE Spec2Model ----------------------------
(***************************************************************************)
(* A model of the three routines of rlsuite.algos:                         *)
(*   policy_eval             (policy_eval.py)                              *)
(*   qlearning               (qlearning.py)                                *)
(*   gradient_mc_prediction  (gradient_mc_prediction.py)                   *)
(* Numbers are exact rationals <<numerator, denominator>>; the environment *)
(* and the value-function model are the external collaborators, modelled   *)
(* by the interface the routines consume.                                  *)
(***************************************************************************)
EXTENDS Integers, Sequences, FiniteSets, TLC

(***************************************************************************)
(* Bounds of the model.                                                    *)
(***************************************************************************)
\* env.observation_space.n and env.action_space.n
NumStates == 2
NumActions == 2
\* the largest max_iter policy_eval is called with
MaxIterBound == 1
\* the largest num_episodes qlearning and gradient_mc_prediction are called with
MaxEpisodes == 2
\* the number of steps the environment takes in one run
MaxSteps == 2

States == 0..(NumStates - 1)
Actions == 0..(NumActions - 1)

(***************************************************************************)
(* Exact rational arithmetic standing for the float arithmetic of the code *)
(***************************************************************************)
RECURSIVE GCD(_, _)
GCD(a, b) ==
    IF b = 0 THEN a ELSE GCD(b, a % b)

IAbs(n) ==
    IF n < 0 THEN -n ELSE n

R(n, d) ==
    LET g == GCD(IAbs(n), IAbs(d))
        sgn == IF d < 0 THEN -1 ELSE 1
    IN  <<(sgn * n) \div g, (sgn * d) \div g>>

RZero ==
    <<0, 1>>

ROne ==
    <<1, 1>>

RInt(n) ==
    <<n, 1>>

LCM(a, b) ==
    (a \div GCD(a, b)) * b

RAdd(x, y) ==
    LET l == LCM(x[2], y[2])
    IN  R(x[1] * (l \div x[2]) + y[1] * (l \div y[2]), l)

RSub(x, y) ==
    LET l == LCM(x[2], y[2])
    IN  R(x[1] * (l \div x[2]) - y[1] * (l \div y[2]), l)

RMul(x, y) ==
    LET g1 == GCD(IAbs(x[1]), y[2])
        g2 == GCD(IAbs(y[1]), x[2])
    IN  R((x[1] \div g1) * (y[1] \div g2), (x[2] \div g2) * (y[2] \div g1))

RLt(x, y) ==
    LET l == LCM(x[2], y[2])
    IN  x[1] * (l \div x[2]) < y[1] * (l \div y[2])

RLe(x, y) ==
    LET l == LCM(x[2], y[2])
    IN  x[1] * (l \div x[2]) <= y[1] * (l \div y[2])

RAbs(x) ==
    <<IAbs(x[1]), x[2]>>

RMax(x, y) ==
    IF RLt(x, y) THEN y ELSE x

\* Each routine has its arguments, its locals under their names in the source
\* and its position pc.  Recorded next to them, for the properties only:
\*   pe_V_sweep          V as it stood when the running sweep began
\*   ql_left             the states a step has been taken from
\*   ql_t, mc_t          the steps the environment has taken in the run
\*   mc_weights_call     the parameters of value_fn when the routine was called
\*   mc_weights_episode  the parameters of value_fn at the head of the episode
VARIABLES
    \* policy_eval
    pe_pc, pe_P, pe_policy, pe_gamma, pe_theta, pe_max_iter,
    pe_logger, pe_env, pe_V, pe_V_sweep, pe_i, pe_state, pe_delta, pe_ret,
    \* qlearning
    ql_pc, ql_alpha, ql_epsilon, ql_gamma, ql_num_episodes,
    ql_summary_writer, ql_env, ql_pi, ql_Q, ql_i, ql_state, ql_done,
    ql_episode_length, ql_action, ql_reward, ql_target,
    ql_best_action, ql_left, ql_t, ql_ret,
    \* gradient_mc_prediction
    mc_pc, mc_alpha, mc_gamma, mc_num_episodes, mc_logger, mc_env,
    mc_weights, mc_weights_call, mc_weights_episode, mc_i, mc_experience,
    mc_state, mc_done, mc_G, mc_k, mc_episode_length, mc_t, mc_ret

pe_vars == <<pe_pc, pe_P, pe_policy, pe_gamma, pe_theta, pe_max_iter,
             pe_logger, pe_env, pe_V, pe_V_sweep, pe_i, pe_state, pe_delta,
             pe_ret>>
ql_vars == <<ql_pc, ql_alpha, ql_epsilon, ql_gamma, ql_num_episodes,
             ql_summary_writer, ql_env, ql_pi, ql_Q, ql_i, ql_state, ql_done,
             ql_episode_length, ql_action, ql_reward,
             ql_target, ql_best_action, ql_left, ql_t, ql_ret>>
mc_vars == <<mc_pc, mc_alpha, mc_gamma, mc_num_episodes, mc_logger, mc_env,
             mc_weights, mc_weights_call, mc_weights_episode, mc_i,
             mc_experience, mc_state, mc_done, mc_G, mc_k, mc_episode_length,
             mc_t, mc_ret>>
vars == <<pe_vars, ql_vars, mc_vars>>

(***************************************************************************)
(* policy_eval                                                             *)
(***************************************************************************)

\* The transition tables env.P the evaluation is run on: action 0 moves
\* deterministically to nxt[s] with reward rew, every other action stays put
\* with probability 1/2 and moves to nxt[s] (a terminal transition) otherwise.
TransitionModel(nxt, rew) ==
    [s \in States |-> [a \in Actions |->
        IF a = 0
        THEN << <<ROne, nxt[s], RInt(rew), FALSE>> >>
        ELSE << <<R(1, 2), s, RZero, FALSE>>,
                <<R(1, 2), nxt[s], RInt(rew), TRUE>> >>]]

\* The target policies: always action 0, or uniform over the actions.
Policies ==
    { [s \in States |-> [a \in Actions |-> IF a = 0 THEN ROne ELSE RZero]],
      [s \in States |-> [a \in Actions |-> R(1, NumActions)]] }

PEGammas == {R(1, 2), ROne, R(3, 2)}
PEThetas == {RZero, R(1, 2)}
PEMaxIters == (-1)..MaxIterBound
PERewards == {0, 1}
MaxSweeps == MaxIterBound + 2

\* policy_eval.py:40-41
PolicyEvalValid(gamma, theta) ==
    /\ RLe(RZero, gamma) /\ RLe(gamma, ROne)
    /\ RLt(RZero, theta)

\* policy_eval.py:61-63, the inner loop over env.P[state][action]
RECURSIVE ActionValue(_, _, _, _)
ActionValue(outcomes, k, V, gamma) ==
    IF k > Len(outcomes) THEN RZero
    ELSE LET o == outcomes[k]
         IN  RAdd(RMul(o[1], RAdd(o[3], RMul(gamma, V[o[2]]))),
                  ActionValue(outcomes, k + 1, V, gamma))

\* policy_eval.py:59-64, the loop over the actions of env.P[state]
RECURSIVE SumActions(_, _, _, _, _)
SumActions(P, policy, a, V, gamma) ==
    IF a >= NumActions THEN RZero
    ELSE RAdd(RMul(policy[a], ActionValue(P[a], 1, V, gamma)),
              SumActions(P, policy, a + 1, V, gamma))

\* NewV reading the array of the start of the sweep instead of V itself
NewV_FromSweepStart(state) ==
    SumActions(pe_P[state], pe_policy[state], 0, pe_V_sweep, pe_gamma)

\* policy_eval.py:58-65: the new value of `state`, read from the array V
NewV(state) ==
    SumActions(pe_P[state], pe_policy[state], 0, pe_V, pe_gamma)

PEInit ==
    /\ pe_pc = "call"
    /\ \E nxt \in [States -> States], rew \in PERewards :
           pe_P = TransitionModel(nxt, rew)
    /\ pe_policy \in Policies
    /\ pe_gamma \in PEGammas
    /\ pe_theta \in PEThetas
    /\ pe_max_iter \in PEMaxIters
    /\ pe_logger = FALSE
    /\ pe_env = FALSE
    /\ pe_V = <<>>
    /\ pe_V_sweep = <<>>
    /\ pe_i = 0
    /\ pe_state = 0
    /\ pe_delta = RZero
    /\ pe_ret = "none"

PEIdle ==
    /\ pe_pc = "idle"
    /\ pe_P = <<>>
    /\ pe_policy = <<>>
    /\ pe_gamma = RZero
    /\ pe_theta = RZero
    /\ pe_max_iter = 0
    /\ pe_logger = FALSE
    /\ pe_env = FALSE
    /\ pe_V = <<>>
    /\ pe_V_sweep = <<>>
    /\ pe_i = 0
    /\ pe_state = 0
    /\ pe_delta = RZero
    /\ pe_ret = "none"

\* policy_eval.py:39-56: validation, then Logger, env_fn(), V = zeros
PolicyEvalCall ==
    /\ pe_pc = "call"
    /\ IF PolicyEvalValid(pe_gamma, pe_theta)
       THEN /\ pe_pc' = "sweep"
            /\ pe_logger' = TRUE
            /\ pe_env' = TRUE
            /\ pe_V' = [s \in States |-> RZero]
            /\ pe_V_sweep' = [s \in States |-> RZero]
       ELSE /\ pe_pc' = "failed"
            /\ UNCHANGED <<pe_logger, pe_env, pe_V, pe_V_sweep>>
    /\ UNCHANGED <<pe_P, pe_policy, pe_gamma, pe_theta, pe_max_iter, pe_i,
                   pe_state, pe_delta, pe_ret>>
    /\ UNCHANGED <<ql_vars, mc_vars>>

\* policy_eval.py:57-66: one iteration of `for state in range(num_states)`
PolicyEvalState ==
    /\ pe_pc = "sweep"
    /\ pe_state < NumStates
    /\ LET old_v == pe_V[pe_state]
           new_v == NewV(pe_state)
       IN  /\ pe_V' = [pe_V EXCEPT ![pe_state] = new_v]
           /\ pe_delta' = RMax(pe_delta, RAbs(RSub(new_v, old_v)))
    /\ pe_state' = pe_state + 1
    /\ UNCHANGED <<pe_pc, pe_P, pe_policy, pe_gamma, pe_theta, pe_max_iter,
                   pe_logger, pe_env, pe_V_sweep, pe_i, pe_ret>>
    /\ UNCHANGED <<ql_vars, mc_vars>>

\* The break test with `i >= max_iter`
PolicyEvalStop_AtMaxIter(delta, theta, max_iter, i) ==
    RLt(delta, theta) \/ (max_iter > 0 /\ i >= max_iter)

\* policy_eval.py:70
PolicyEvalStop(delta, theta, max_iter, i) ==
    RLt(delta, theta) \/ (max_iter > 0 /\ i > max_iter)

\* policy_eval.py:68-75: logger.store, the break test, the next sweep or
\* env.close() and return V
PolicyEvalSweepEnd ==
    /\ pe_pc = "sweep"
    /\ pe_state = NumStates
    /\ IF PolicyEvalStop(pe_delta, pe_theta, pe_max_iter, pe_i)
       THEN /\ pe_pc' = "done"
            /\ pe_ret' = "V"
            /\ UNCHANGED <<pe_i, pe_state, pe_delta, pe_V_sweep>>
       ELSE /\ pe_i < MaxSweeps
            /\ pe_i' = pe_i + 1
            /\ pe_state' = 0
            /\ pe_delta' = RZero
            /\ pe_V_sweep' = pe_V
            /\ UNCHANGED <<pe_pc, pe_ret>>
    /\ UNCHANGED <<pe_P, pe_policy, pe_gamma, pe_theta, pe_max_iter,
                   pe_logger, pe_env, pe_V>>
    /\ UNCHANGED <<ql_vars, mc_vars>>

PENext ==
    \/ PolicyEvalCall
    \/ PolicyEvalState
    \/ PolicyEvalSweepEnd

(***************************************************************************)
(* qlearning                                                               *)
(***************************************************************************)
QLAlphas == {RZero, R(1, 2)}
QLEpsilons == {RZero, R(1, 2), R(3, 2)}
QLGammas == {R(-1, 2), R(1, 2)}
QLNumEpisodes == {0, MaxEpisodes}
QLRewards == {0, 1}

\* The validation with the first assertion testing epsilon only
QLearningValid_NoAlpha(alpha, epsilon, gamma, num_episodes) ==
    /\ RLe(RZero, epsilon) /\ RLe(epsilon, ROne)
    /\ RLe(RZero, gamma) /\ RLe(gamma, ROne)
    /\ num_episodes > 0

\* qlearning.py:35-38
QLearningValid(alpha, epsilon, gamma, num_episodes) ==
    /\ RLt(RZero, alpha) /\ RLe(epsilon, ROne)
    /\ RLe(RZero, epsilon) /\ RLe(epsilon, ROne)
    /\ RLe(RZero, gamma) /\ RLe(gamma, ROne)
    /\ num_episodes > 0

\* np.max of a row of Q (qlearning.py:88, 92)
RowMax(row) ==
    CHOOSE m \in {row[a] : a \in Actions} : \A a \in Actions : RLe(row[a], m)

\* qlearning.py:88
Target(reward, gamma, Q, next_state) ==
    RAdd(RInt(reward), RMul(gamma, RowMax(Q[next_state])))

\* The update assigning the increment instead of adding it
UpdateQ_Assign(Q, state, action, alpha, target) ==
    [Q EXCEPT ![state][action] = RMul(alpha, RSub(target, Q[state][action]))]

\* qlearning.py:89
UpdateQ(Q, state, action, alpha, target) ==
    [Q EXCEPT ![state][action] =
        RAdd(Q[state][action], RMul(alpha, RSub(target, Q[state][action])))]

\* The first maximal action only, as np.argmax would give
BestActions_First(row) ==
    {CHOOSE a \in Actions :
        /\ \A c \in Actions : RLe(row[c], row[a])
        /\ \A c \in Actions : (c < a) => RLt(row[c], row[a])}

\* qlearning.py:92
BestActions(row) ==
    {a \in Actions : row[a] = RowMax(row)}

\* The greedy action getting 1 - epsilon only
PolicyRow_NoShare(best_action, epsilon) ==
    [a \in Actions |->
        IF a = best_action
        THEN RSub(ROne, epsilon)
        ELSE RMul(epsilon, R(1, NumActions))]

\* qlearning.py:94-98
PolicyRow(best_action, epsilon) ==
    [a \in Actions |->
        IF a = best_action
        THEN RAdd(RSub(ROne, epsilon), RMul(epsilon, R(1, NumActions)))
        ELSE RMul(epsilon, R(1, NumActions))]

\* qlearning.py:62
InitialPi ==
    [s \in States |-> [a \in Actions |-> R(1, NumActions)]]

\* qlearning.py:65
InitialQ ==
    [s \in States |-> [a \in Actions |-> RZero]]

QLRest ==
    /\ ql_summary_writer = FALSE
    /\ ql_env = FALSE
    /\ ql_pi = <<>>
    /\ ql_Q = <<>>
    /\ ql_i = 0
    /\ ql_state = 0
    /\ ql_done = FALSE
    /\ ql_episode_length = 0
    /\ ql_action = 0
    /\ ql_reward = 0
    /\ ql_target = RZero
    /\ ql_best_action = 0
    /\ ql_left = {}
    /\ ql_t = 0
    /\ ql_ret = <<>>

QLInit ==
    /\ ql_pc = "call"
    /\ ql_alpha \in QLAlphas
    /\ ql_epsilon \in QLEpsilons
    /\ ql_gamma \in QLGammas
    /\ ql_num_episodes \in QLNumEpisodes
    /\ QLRest

QLIdle ==
    /\ ql_pc = "idle"
    /\ ql_alpha = RZero
    /\ ql_epsilon = RZero
    /\ ql_gamma = RZero
    /\ ql_num_episodes = 0
    /\ QLRest

\* qlearning.py:34-65: validation, argument logging, FileWriter, env_fn(),
\* seeds, pi and Q
QLearningCall ==
    /\ ql_pc = "call"
    /\ IF QLearningValid(ql_alpha, ql_epsilon, ql_gamma, ql_num_episodes)
       THEN /\ ql_pc' = "reset"
            /\ ql_summary_writer' = TRUE
            /\ ql_env' = TRUE
            /\ ql_pi' = InitialPi
            /\ ql_Q' = InitialQ
       ELSE /\ ql_pc' = "failed"
            /\ UNCHANGED <<ql_summary_writer, ql_env, ql_pi, ql_Q>>
    /\ UNCHANGED <<ql_alpha, ql_epsilon, ql_gamma, ql_num_episodes, ql_i,
                   ql_state, ql_done, ql_episode_length, ql_action,
                   ql_reward, ql_target, ql_best_action,
                   ql_left, ql_t, ql_ret>>
    /\ UNCHANGED <<pe_vars, mc_vars>>

\* qlearning.py:68-79: the head of an episode, env.reset()
QLearningReset ==
    /\ ql_pc = "reset"
    /\ \E s \in States : ql_state' = s
    /\ ql_done' = FALSE
    /\ ql_episode_length' = 0
    /\ ql_pc' = "step"
    /\ UNCHANGED <<ql_alpha, ql_epsilon, ql_gamma, ql_num_episodes,
                   ql_summary_writer, ql_env, ql_pi, ql_Q, ql_i, ql_action,
                   ql_reward, ql_target, ql_best_action,
                   ql_left, ql_t, ql_ret>>
    /\ UNCHANGED <<pe_vars, mc_vars>>

\* qlearning.py:80-105: one iteration of `while not done`.  The environment
\* answers any step with any state, reward and done flag; it takes at most
\* MaxSteps steps in a run and signals done on the last of them.
QLearningStep ==
    /\ ql_pc = "step"
    /\ ~ql_done
    /\ ql_t < MaxSteps
    /\ ql_t' = ql_t + 1
    /\ \E action \in Actions, next_state \in States, reward \in QLRewards,
          done \in BOOLEAN :
          /\ RLt(RZero, ql_pi[ql_state][action])
          /\ (ql_t + 1 >= MaxSteps) => done
          /\ LET target == Target(reward, ql_gamma, ql_Q, next_state)
                 Q == UpdateQ(ql_Q, ql_state, action, ql_alpha, target)
             IN  /\ ql_Q' = Q
                 /\ ql_target' = target
                 /\ \E best_action \in BestActions(Q[ql_state]) :
                        /\ ql_best_action' = best_action
                        /\ ql_pi' = [ql_pi EXCEPT ![ql_state] =
                                        PolicyRow(best_action, ql_epsilon)]
          /\ ql_action' = action
          /\ ql_reward' = reward
          /\ ql_done' = done
          /\ ql_state' = next_state
          /\ ql_pc' = IF done THEN "summary" ELSE "step"
    /\ ql_left' = ql_left \cup {ql_state}
    /\ ql_episode_length' = ql_episode_length + 1
    /\ UNCHANGED <<ql_alpha, ql_epsilon, ql_gamma, ql_num_episodes,
                   ql_summary_writer, ql_env, ql_i, ql_ret>>
    /\ UNCHANGED <<pe_vars, mc_vars>>

\* qlearning.py:107-114: the episode summary, then the next episode or
\* env.close(), summary_writer.close() and the end of the function body,
\* which has no return statement (the call evaluates to None, written <<>>)
QLearningSummary ==
    /\ ql_pc = "summary"
    /\ ql_i' = ql_i + 1
    /\ IF ql_i + 1 < ql_num_episodes
       THEN /\ ql_pc' = "reset"
            /\ UNCHANGED ql_ret
       ELSE /\ ql_pc' = "done"
            /\ ql_ret' = <<>>
    /\ UNCHANGED <<ql_alpha, ql_epsilon, ql_gamma, ql_num_episodes,
                   ql_summary_writer, ql_env, ql_pi, ql_Q, ql_state, ql_done,
                   ql_episode_length, ql_action, ql_reward,
                   ql_target, ql_best_action, ql_left, ql_t>>
    /\ UNCHANGED <<pe_vars, mc_vars>>

QLNext ==
    \/ QLearningCall
    \/ QLearningReset
    \/ QLearningStep
    \/ QLearningSummary

(***************************************************************************)
(* gradient_mc_prediction                                                  *)
(***************************************************************************)
MCAlphas == {R(-1, 2), RZero, R(1, 2)}
MCGammas == {R(1, 2), ROne}
MCNumEpisodes == {0, MaxEpisodes}
MCRewards == {0, 1}
\* The states of the environment: one-feature observations.
MCStates == {1, 2}
\* value_fn is a linear model, value_fn(x) = kernel * x + bias, whose
\* trainable_weights are <<kernel, bias>>; the caller owns its parameters.
MCWeights == { <<ROne, RZero>>, <<R(1, 2), RInt(-1)>> }

\* gradient_mc_prediction.py:42-43
GradientMCValid(alpha, num_episodes) ==
    /\ RLe(RZero, alpha)
    /\ num_episodes > 0

\* gradient_mc_prediction.py:85, the forward pass value_fn(state)
ValueFn(weights, state) ==
    RAdd(RMul(weights[1], RInt(state)), weights[2])

\* gradient_mc_prediction.py:86, tape.gradient(value, weights)
Gradient(weights, state) ==
    <<RInt(state), ROne>>

\* gradient_mc_prediction.py:80
Return(gamma, G, reward) ==
    RAdd(RMul(gamma, G), RInt(reward))

\* The update without the learning rate
AssignAdd_NoAlpha(weights, alpha, G, value, grads) ==
    [j \in 1..Len(weights) |->
        RAdd(weights[j], RMul(RSub(G, value), grads[j]))]

\* gradient_mc_prediction.py:89-91
AssignAdd(weights, alpha, G, value, grads) ==
    [j \in 1..Len(weights) |->
        RAdd(weights[j], RMul(RMul(alpha, RSub(G, value)), grads[j]))]

\* The experience iterated in temporal order
Reversed_Forward(experience, k) ==
    experience[k]

\* gradient_mc_prediction.py:75, the k-th item of reversed(experience),
\* counted from 1
Reversed(experience, k) ==
    experience[Len(experience) + 1 - k]

MCRest ==
    /\ mc_logger = FALSE
    /\ mc_env = FALSE
    /\ mc_weights_episode = mc_weights
    /\ mc_i = 0
    /\ mc_experience = <<>>
    /\ mc_state = 1
    /\ mc_done = FALSE
    /\ mc_G = RZero
    /\ mc_k = 0
    /\ mc_episode_length = 0
    /\ mc_t = 0
    /\ mc_ret = "none"

MCInit ==
    /\ mc_pc = "call"
    /\ mc_alpha \in MCAlphas
    /\ mc_gamma \in MCGammas
    /\ mc_num_episodes \in MCNumEpisodes
    /\ mc_weights \in MCWeights
    /\ mc_weights_call = mc_weights
    /\ MCRest

MCIdle ==
    /\ mc_pc = "idle"
    /\ mc_alpha = RZero
    /\ mc_gamma = RZero
    /\ mc_num_episodes = 0
    /\ mc_weights = <<>>
    /\ mc_weights_call = <<>>
    /\ MCRest

\* gradient_mc_prediction.py:41-54: validation, then Logger, env_fn(), seeds
GradientMCCall ==
    /\ mc_pc = "call"
    /\ IF GradientMCValid(mc_alpha, mc_num_episodes)
       THEN /\ mc_pc' = "reset"
            /\ mc_logger' = TRUE
            /\ mc_env' = TRUE
       ELSE /\ mc_pc' = "failed"
            /\ UNCHANGED <<mc_logger, mc_env>>
    /\ UNCHANGED <<mc_alpha, mc_gamma, mc_num_episodes, mc_weights,
                   mc_weights_call, mc_weights_episode, mc_i, mc_experience,
                   mc_state, mc_done, mc_G, mc_k, mc_episode_length, mc_t,
                   mc_ret>>
    /\ UNCHANGED <<pe_vars, ql_vars>>

\* gradient_mc_prediction.py:57-65: the head of an episode, env.reset()
GradientMCReset ==
    /\ mc_pc = "reset"
    /\ mc_experience' = <<>>
    /\ \E s \in MCStates : mc_state' = s
    /\ mc_done' = FALSE
    /\ mc_episode_length' = 0
    /\ mc_weights_episode' = mc_weights
    /\ mc_pc' = "rollout"
    /\ UNCHANGED <<mc_alpha, mc_gamma, mc_num_episodes, mc_logger, mc_env,
                   mc_weights, mc_weights_call, mc_i, mc_G, mc_k, mc_t,
                   mc_ret>>
    /\ UNCHANGED <<pe_vars, ql_vars>>

\* gradient_mc_prediction.py:66-74: one iteration of `while not done`; the
\* step that ends the episode falls through to G = 0.  The environment
\* answers any action with any state, reward and done flag; it takes at most
\* MaxSteps steps in a run and signals done on the last of them.
GradientMCStep ==
    /\ mc_pc = "rollout"
    /\ ~mc_done
    /\ mc_t < MaxSteps
    /\ mc_t' = mc_t + 1
    /\ \E action \in Actions, next_state \in MCStates, reward \in MCRewards,
          done \in BOOLEAN :
          /\ (mc_t + 1 >= MaxSteps) => done
          /\ mc_experience' = Append(mc_experience, <<mc_state, reward>>)
          /\ mc_state' = next_state
          /\ mc_done' = done
          /\ mc_pc' = IF done THEN "update" ELSE "rollout"
          /\ mc_G' = IF done THEN RZero ELSE mc_G
          /\ mc_k' = IF done THEN 0 ELSE mc_k
    /\ mc_episode_length' = mc_episode_length + 1
    /\ UNCHANGED <<mc_alpha, mc_gamma, mc_num_episodes, mc_logger, mc_env,
                   mc_weights, mc_weights_call, mc_weights_episode, mc_i,
                   mc_ret>>
    /\ UNCHANGED <<pe_vars, ql_vars>>

\* gradient_mc_prediction.py:75-91: one iteration of
\* `for state, reward in reversed(experience)`
GradientMCUpdate ==
    /\ mc_pc = "update"
    /\ mc_k < Len(mc_experience)
    /\ LET item == Reversed(mc_experience, mc_k + 1)
           state == item[1]
           reward == item[2]
           G == Return(mc_gamma, mc_G, reward)
           value == ValueFn(mc_weights, state)
           grads == Gradient(mc_weights, state)
       IN  /\ mc_state' = state
           /\ mc_G' = G
           /\ mc_weights' = AssignAdd(mc_weights, mc_alpha, G, value, grads)
    /\ mc_k' = mc_k + 1
    /\ UNCHANGED <<mc_pc, mc_alpha, mc_gamma, mc_num_episodes, mc_logger,
                   mc_env, mc_weights_call, mc_weights_episode, mc_i,
                   mc_experience, mc_done, mc_episode_length, mc_t, mc_ret>>
    /\ UNCHANGED <<pe_vars, ql_vars>>

\* gradient_mc_prediction.py:93-103: logger.store, then the next episode or
\* env.close() and return value_fn
GradientMCStore ==
    /\ mc_pc = "update"
    /\ mc_k = Len(mc_experience)
    /\ mc_i' = mc_i + 1
    /\ IF mc_i + 1 < mc_num_episodes
       THEN /\ mc_pc' = "reset"
            /\ UNCHANGED mc_ret
       ELSE /\ mc_pc' = "done"
            /\ mc_ret' = "value_fn"
    /\ UNCHANGED <<mc_alpha, mc_gamma, mc_num_episodes, mc_logger, mc_env,
                   mc_weights, mc_weights_call, mc_weights_episode,
                   mc_experience, mc_state, mc_done, mc_G, mc_k,
                   mc_episode_length, mc_t>>
    /\ UNCHANGED <<pe_vars, ql_vars>>

MCNext ==
    \/ GradientMCCall
    \/ GradientMCReset
    \/ GradientMCStep
    \/ GradientMCUpdate
    \/ GradientMCStore

InitPE ==
    PEInit /\ QLIdle /\ MCIdle

InitQL ==
    PEIdle /\ QLInit /\ MCIdle

InitMC ==
    PEIdle /\ QLIdle /\ MCInit

Init ==
    InitPE \/ InitQL \/ InitMC

Next ==
    \/ PolicyEvalCall
    \/ PolicyEvalState
    \/ PolicyEvalSweepEnd
    \/ QLearningCall
    \/ QLearningReset
    \/ QLearningStep
    \/ QLearningSummary
    \/ GradientMCCall
    \/ GradientMCReset
    \/ GradientMCStep
    \/ GradientMCUpdate
    \/ GradientMCStore

\* Any one of the three routines is called.
Spec ==
    Init /\ [][Next]_vars

SpecPE ==
    InitPE /\ [][PENext]_vars

SpecQL ==
    InitQL /\ [][QLNext]_vars

SpecMC ==
    InitMC /\ [][MCNext]_vars

(***************************************************************************)
(* Properties of policy_eval                                               *)
(***************************************************************************)

\* The value of state s computed from the array as it stood when the running
\* sweep began.
JacobiV(s) ==
    SumActions(pe_P[s], pe_policy[s], 0, pe_V_sweep, pe_gamma)

\* The array state s is evaluated on by an in-place sweep: the states before
\* s carry the values of this sweep, s and the states after it the values
\* the sweep began with.
InPlaceArray(s) ==
    [t \in States |-> IF t < s THEN pe_V[t] ELSE pe_V_sweep[t]]

InPlaceV(s) ==
    SumActions(pe_P[s], pe_policy[s], 0, InPlaceArray(s), pe_gamma)

\* C1 as stated: every state already visited in the running sweep holds the
\* value computed from the array of the start of the sweep (Jacobi-style).
C1_JacobiSweep ==
    pe_pc \in {"sweep", "done"} =>
        \A s \in States : s < pe_state => pe_V[s] = JacobiV(s)

\* C1 amended: every state already visited in the running sweep holds the
\* value computed from the array as it stood when the state was visited, in
\* which the states visited before it already carry their new values; the
\* states not yet visited still hold the values of the previous sweep.
C1_InPlaceSweep ==
    pe_pc \in {"sweep", "done"} =>
        \A s \in States :
            IF s < pe_state THEN pe_V[s] = InPlaceV(s)
            ELSE pe_V[s] = pe_V_sweep[s]

\* A finished sweep whose result differs from the Jacobi result.
C1_Witness ==
    /\ pe_pc = "sweep"
    /\ pe_state = NumStates
    /\ \E s \in States : pe_V[s] # JacobiV(s)

\* The delta of the sweep: the largest change of any state's value.
RECURSIVE SweepDelta(_)
SweepDelta(s) ==
    IF s >= NumStates THEN RZero
    ELSE RMax(RAbs(RSub(pe_V[s], pe_V_sweep[s])), SweepDelta(s + 1))

C2_StopCondition ==
    \/ RLt(SweepDelta(0), pe_theta)
    \/ (pe_max_iter > 0 /\ pe_i > pe_max_iter)

C2_Step ==
    /\ (pe_pc = "sweep" /\ pe_pc' = "done") =>
           (pe_state = NumStates /\ C2_StopCondition)
    /\ (pe_pc = "sweep" /\ pe_state = NumStates /\ C2_StopCondition) =>
           pe_pc' = "done"
    /\ (pe_pc = "sweep" /\ pe_state = NumStates /\ pe_max_iter <= 0
            /\ ~RLt(SweepDelta(0), pe_theta)) => pe_pc' # "done"

C3_ReturnsQAndPolicy ==
    ql_pc = "done" => ql_ret = <<ql_Q, ql_pi>>

\* The probability of the greedy action and of every other action.
GreedyProb ==
    RAdd(RSub(ROne, ql_epsilon), RMul(ql_epsilon, R(1, NumActions)))

OtherProb ==
    RMul(ql_epsilon, R(1, NumActions))

\* The actions whose value in the row is the largest of the row.
ArgMax(row) ==
    {b \in Actions : \A a \in Actions : RLe(row[a], row[b])}

IsEpsilonGreedy(pirow, qrow) ==
    \E b \in ArgMax(qrow) :
        \A a \in Actions :
            pirow[a] = IF a = b THEN GreedyProb ELSE OtherProb

\* C6 as stated: at every step the row of the policy the action is drawn
\* from is epsilon-greedy for the current row of Q.
C6_EpsilonGreedyAtEveryStep ==
    (ql_pc = "step") => IsEpsilonGreedy(ql_pi[ql_state], ql_Q[ql_state])

\* C6 amended: at every step the row the action is drawn from is
\* epsilon-greedy for the current row of Q once a step has been taken from
\* that state; in a state no step has been taken from yet it is the uniform
\* row 1/|A| (and the row of Q is still all zeros).
C6_EpsilonGreedyOnceLeft ==
    (ql_pc = "step") =>
        \A s \in States :
            IF s \in ql_left
            THEN IsEpsilonGreedy(ql_pi[s], ql_Q[s])
            ELSE \A a \in Actions :
                     ql_pi[s][a] = R(1, NumActions) /\ ql_Q[s][a] = RZero

\* A step is about to be taken from a state left before, whose row of Q has
\* changed and whose policy row is not uniform.
C6_Witness ==
    /\ ql_pc = "step"
    /\ ql_state \in ql_left
    /\ \E a \in Actions : ql_Q[ql_state][a] # RZero
    /\ \E a \in Actions : ql_pi[ql_state][a] # R(1, NumActions)
    /\ \E s \in States : s \notin ql_left

QLStepTaken ==
    ql_pc = "step" /\ ql_episode_length' = ql_episode_length + 1

C7_Step ==
    /\ (ql_pc = "call" /\ ql_pc' = "reset") =>
           \A s \in States : \A a \in Actions : ql_Q'[s][a] = RZero
    /\ QLStepTaken =>
           LET s == ql_state
               a == ql_action'
               m == CHOOSE v \in {ql_Q[ql_state'][b] : b \in Actions} :
                        \A b \in Actions : RLe(ql_Q[ql_state'][b], v)
               old == ql_Q[s][a]
               new == RAdd(old, RMul(ql_alpha,
                          RSub(RAdd(RInt(ql_reward'), RMul(ql_gamma, m)), old)))
           IN  \A x \in States : \A b \in Actions :
                   ql_Q'[x][b] = IF x = s /\ b = a THEN new ELSE ql_Q[x][b]

\* C7: Q starts as all zeros and a step from s with action a, reward r and
\* next state s' sets Q[s,a] to Q[s,a] + alpha*(r + gamma*max Q[s'] - Q[s,a]),
\* the maximum being taken before the update, and changes no other entry.
C7_TDUpdate ==
    [][C7_Step]_vars

\* A step from a state back to itself, whose row of Q was not zero, has
\* changed the entry of its action.
C7_Witness ==
    /\ ql_pc \in {"step", "summary"}
    /\ ql_episode_length > 1
    /\ ql_state \in ql_left
    /\ ql_target # RInt(ql_reward)
    /\ ql_Q[ql_state][ql_action] # RZero

RECURSIVE RowSum(_, _)
RowSum(row, a) ==
    IF a >= NumActions THEN RZero ELSE RAdd(row[a], RowSum(row, a + 1))

C8_Step ==
    QLStepTaken =>
        LET s == ql_state
        IN  /\ \E b \in ArgMax(ql_Q'[s]) :
                   \A a \in Actions :
                       ql_pi'[s][a] = IF a = b THEN GreedyProb ELSE OtherProb
            /\ RowSum(ql_pi'[s], 0) = ROne
            /\ \A x \in States : x # s => ql_pi'[x] = ql_pi[x]

\* The set best_action is drawn from holds every action that attains the
\* maximum of the row, for every row of Q the routine produces.
C8_AnyTiedAction ==
    (ql_pc \in {"step", "summary"}) =>
        \A s \in States : BestActions(ql_Q[s]) = ArgMax(ql_Q[s])

\* C8: a step from s recomputes pi[s] from the updated Q[s]: one action that
\* attains the maximum of the row gets 1 - epsilon + epsilon/|A|, every other
\* action epsilon/|A|, the row sums to 1, every action tied for the maximum
\* can be the one chosen, and the rows of the other states are unchanged.
C8_PolicyRowUpdate ==
    []C8_AnyTiedAction /\ [][C8_Step]_vars

\* A step left a row of Q with several maximal actions and the action that
\* got the greedy probability is not the lowest-indexed of them.
C8_Witness ==
    /\ ql_pc \in {"step", "summary"}
    /\ ql_episode_length > 0
    /\ \E s \in ql_left :
           /\ Cardinality(ArgMax(ql_Q[s])) > 1
           /\ \E b \in ArgMax(ql_Q[s]) :
                  /\ \E c \in ArgMax(ql_Q[s]) : c < b
                  /\ ql_pi[s][b] = GreedyProb
                  /\ ql_pi[s][b] # OtherProb

\* C10 as stated: on a step on which the environment signals done the TD
\* target is the reward alone.
C10_TerminalTargetIsReward ==
    (ql_pc = "summary") => ql_target = RInt(ql_reward)

(***************************************************************************)
(* Properties of gradient_mc_prediction                                    *)
(***************************************************************************)

\* C5: with alpha = 0 the parameters of value_fn are, at every point of the
\* run, the ones it had when the routine was called.
C5_ZeroAlphaKeepsParameters ==
    (mc_pc # "idle" /\ mc_alpha = RZero) => mc_weights = mc_weights_call

\* Two episodes were run with alpha = 0 and the last update had a non-zero
\* error G - value_fn(state) and non-zero gradients.
C5_Witness ==
    /\ mc_pc = "done"
    /\ mc_alpha = RZero
    /\ mc_i >= 2
    /\ mc_G # ValueFn(mc_weights, mc_state)

\* The return after the first k items of the recorded experience, taken in
\* reverse temporal order.
RECURSIVE ReturnAfter(_)
ReturnAfter(k) ==
    IF k = 0 THEN RZero
    ELSE RAdd(RMul(mc_gamma, ReturnAfter(k - 1)),
              RInt(mc_experience[Len(mc_experience) + 1 - k][2]))

\* The parameters after the first k updates of the pass, each evaluating
\* value_fn and its gradient on the parameters the update before it left.
RECURSIVE WeightsAfter(_)
WeightsAfter(k) ==
    IF k = 0 THEN mc_weights_episode
    ELSE LET w == WeightsAfter(k - 1)
             x == RInt(mc_experience[Len(mc_experience) + 1 - k][1])
             err == RSub(ReturnAfter(k), RAdd(RMul(w[1], x), w[2]))
         IN  <<RAdd(w[1], RMul(RMul(mc_alpha, err), x)),
               RAdd(w[2], RMul(mc_alpha, err))>>

C9_State ==
    /\ (mc_pc = "rollout") => mc_weights = mc_weights_episode
    /\ (mc_pc = "update") =>
           /\ mc_done
           /\ mc_k <= Len(mc_experience)
           /\ mc_G = ReturnAfter(mc_k)
           /\ mc_weights = WeightsAfter(mc_k)

C9_Step ==
    /\ (mc_pc = "rollout") => mc_weights' = mc_weights
    /\ (mc_pc = "update" /\ mc_pc' # "update") =>
           (mc_k = Len(mc_experience) /\ mc_weights' = mc_weights)
    /\ (mc_pc = "update" /\ mc_pc' = "update") =>
           (mc_k' = mc_k \/ mc_k' = mc_k + 1)

\* C9: no parameter changes while an episode is rolled out; after the
\* terminal step the recorded pairs are processed once each, last first, G
\* starting at 0 and becoming gamma*G + reward before each update, which adds
\* alpha*(G - value_fn(state))*gradient to every parameter, evaluated on the
\* parameters the previous update left.
C9_ReverseReturnPass ==
    []C9_State /\ [][C9_Step]_vars

\* A pass over an episode of two steps is complete, both updates changed the
\* parameters and the discount made a difference to the return.
C9_Witness ==
    /\ mc_pc = "update"
    /\ Len(mc_experience) >= 2
    /\ mc_k = Len(mc_experience)
    /\ mc_experience[1] # mc_experience[2]
    /\ WeightsAfter(1) # mc_weights_episode
    /\ mc_weights # WeightsAfter(1)
    /\ mc_gamma # ROne

(***************************************************************************)
(* The preconditions of the three routines                                 *)
(***************************************************************************)
InUnitInterval(x) ==
    RLe(RZero, x) /\ RLe(x, ROne)

C4_PolicyEvalPre ==
    InUnitInterval(pe_gamma) /\ RLt(RZero, pe_theta)

C4_QLearningPre ==
    /\ RLt(RZero, ql_alpha)
    /\ InUnitInterval(ql_epsilon)
    /\ InUnitInterval(ql_gamma)
    /\ ql_num_episodes > 0

C4_GradientMCPre ==
    RLe(RZero, mc_alpha) /\ mc_num_episodes > 0

\* C4: a call whose parameters violate the preconditions fails before the
\* environment factory is called and before a logger or summary writer is
\* constructed, and no value array, table or model parameter is created or
\* changed.
C4_InvalidParameterFailsFirst ==
    /\ (pe_pc \notin {"idle", "call"} /\ ~C4_PolicyEvalPre) =>
           /\ pe_pc = "failed"
           /\ ~pe_logger /\ ~pe_env
           /\ pe_V = <<>>
    /\ (ql_pc \notin {"idle", "call"} /\ ~C4_QLearningPre) =>
           /\ ql_pc = "failed"
           /\ ~ql_summary_writer /\ ~ql_env
           /\ ql_Q = <<>> /\ ql_pi = <<>>
    /\ (mc_pc \notin {"idle", "call"} /\ ~C4_GradientMCPre) =>
           /\ mc_pc = "failed"
           /\ ~mc_logger /\ ~mc_env
           /\ mc_weights = mc_weights_call

\* qlearning was called with alpha = 0 and otherwise valid parameters, and
\* failed.
C4_Witness ==
    /\ ql_pc = "failed"
    /\ ql_alpha = RZero
    /\ InUnitInterval(ql_epsilon)
    /\ InUnitInterval(ql_gamma)
    /\ ql_num_episodes > 0

=============================================================================


